---------------------------- MODULE Spec2Model ----------------------------
(***************************************************************************)
(* Model of the two Sentry adapters of raven-js:                           *)
(*   packages/node/src/lib/node.ts       SentryNode  (capture bridge)      *)
(*   packages/browser/src/backend.ts     BrowserBackend (normalizer and    *)
(*                                        transport dispatch)              *)
(* A run is the life of one adapter: Init chooses which of the two the     *)
(* runtime hosts (a Node process or a browser page) and its configuration. *)
(* The JavaScript runtime is single threaded; a synchronous call into an   *)
(* external collaborator (the Raven engine, the Client) is a frame pushed  *)
(* on `stack`, and what the collaborator does while it runs is a           *)
(* nondeterministic choice among the calls it can make back.               *)
(***************************************************************************)
EXTENDS Naturals, Sequences, FiniteSets, TLC

VARIABLES
  adapter,        \* "node" | "browser": which adapter this runtime hosts
  dsn,            \* the configured DSN ("absent" when none)
  \* ---- SentryNode and the Raven engine it drives
  ravenSend,      \* Raven.send: "original" | "hook"
  ravenCaptureBreadcrumb, \* Raven.captureBreadcrumb: "original" | "hook"
  installed,      \* install() has returned
  capturing,      \* SentryNode.capturing
  captured,       \* SentryNode.captured
  stack,          \* the synchronous call stack, innermost frame last
  nextId,         \* identity of the next artifact the engine or Client creates
  hookSend,       \* per event: times it was passed to interceptRavenSend
  clientSend,     \* per event: times it was passed to Client.send
  origSend,       \* per event: times it was passed to sendRavenEvent
  clientCrumb,    \* per breadcrumb: times passed to Client.captureBreadcrumb
  origCrumb,      \* per breadcrumb: times passed to captureRavenBreadcrumb
  hookCrumb,      \* per breadcrumb: times passed to interceptRavenBreadcrumb
  last,           \* the bridged call that completed most recently
  promises,       \* the promises returned by SentryNode.send
  \* ---- BrowserBackend
  options,        \* BrowserOptions: transport, transportOptions (dsn is above)
  fetchSupported, \* what supportsFetch() answers in this runtime
  lastSend,       \* the most recent sendEvent call: what it built and returned
  norm            \* the most recent eventFromException / eventFromMessage call

nodeVars == <<ravenSend, ravenCaptureBreadcrumb, installed, capturing, captured,
              stack, nextId, hookSend, clientSend, origSend, clientCrumb,
              origCrumb, hookCrumb, last, promises>>

browserVars == <<options, fetchSupported, lastSend, norm>>

vars == <<adapter, dsn, nodeVars, browserVars>>

(***************************************************************************)
(* A definition placed directly before the definition it resembles         *)
(* (CaptureEnterNoClear before CaptureEnter, BranchErrorFirst before       *)
(* Branch, ...) is a faulty variant of it: the variant is not part of the  *)
(* model and serves to show that a property depends on the definition.     *)
(***************************************************************************)

(***************************************************************************)
(* Bounds of the model.                                                    *)
(***************************************************************************)
MaxArtifacts == 2      \* artifacts (events, breadcrumbs) created in a run
MaxDepth == 2          \* frames on the call stack
MaxSends == 1          \* calls of SentryNode.send in a run

Ids == 1..(MaxArtifacts + 1)

(***************************************************************************)
(* Artifacts.  `undefined` is JavaScript's undefined, the empty slot.      *)
(***************************************************************************)
Undefined == [kind |-> "undefined", id |-> 0]
Event(i) == [kind |-> "event", id |-> i]
Breadcrumb(i) == [kind |-> "breadcrumb", id |-> i]
IsArtifact(a) == a.kind \in {"event", "breadcrumb"}

NoCounts == [i \in Ids |-> 0]
Bump(f, a) == [f EXCEPT ![a.id] = @ + 1]

(* Outcomes of a bridged call that are not artifacts. *)
CaptureFailure == [kind |-> "CaptureFailure", id |-> 0]   \* Error('Could not capture.')
Threw == [kind |-> "threw", id |-> 0]                     \* the operation itself raised

NoCall == [returns |-> "none", hooks |-> 0, nested |-> FALSE, outcome |-> Undefined]

(* The declared result type of a bridged operation (lines 47, 53, 59).      *)
Returns(op) == IF op = "captureBreadcrumb" THEN "Breadcrumb" ELSE "Event"

(***************************************************************************)
(* Frames.  "capture": SentryNode.capture is inside callback(); for        *)
(* captureException and captureMessage the engine is running the           *)
(* operation, for captureBreadcrumb the callback calls                     *)
(* Raven.captureBreadcrumb(arg).  "Client.send", "Client.captureBreadcrumb":*)
(* a hook forwarded an artifact and the Client is running.                 *)
(***************************************************************************)
CaptureFrame(op, a) ==
  [fn |-> "capture", op |-> op, arg |-> a, fired |-> <<>>,
   hooks |-> 0, nested |-> FALSE, called |-> FALSE]
ClientFrame(fn, a) ==
  [fn |-> fn, op |-> "none", arg |-> a, fired |-> <<>>,
   hooks |-> 0, nested |-> FALSE, called |-> FALSE]

Top == stack[Len(stack)]
Idle == stack = <<>>
InEngineOp ==
  stack # <<>> /\ Top.fn = "capture" /\ Top.op \in {"captureException", "captureMessage"}
InBreadcrumbOp ==
  stack # <<>> /\ Top.fn = "capture" /\ Top.op = "captureBreadcrumb"
InClient(fn) == stack # <<>> /\ Top.fn = fn

Pop(s) == SubSeq(s, 1, Len(s) - 1)
MarkCalled(s) == [s EXCEPT ![Len(s)].called = TRUE]

(* A hook fired with artifact a while the frames of s were in progress:     *)
(* every bridged call in progress saw a hook fire (hooks); the innermost    *)
(* frame, when it is the bridged call whose operation fired it, has a among *)
(* the artifacts its own operation produced (fired).                        *)
NoteHook(s, a) ==
  [i \in 1..Len(s) |->
     IF s[i].fn = "capture"
     THEN [s[i] EXCEPT !.hooks = @ + 1,
                       !.fired = IF i = Len(s) THEN Append(@, a) ELSE @]
     ELSE s[i]]

(* A bridged call starts inside the bridged calls of s.                     *)
NoteNested(s) ==
  [i \in 1..Len(s) |->
     IF s[i].fn = "capture" THEN [s[i] EXCEPT !.nested = TRUE] ELSE s[i]]

(***************************************************************************)
(* SentryNode.capture, lines 129-130: the bridge state when callback() is  *)
(* entered.                                                                *)
(***************************************************************************)
CaptureEnterNoClear == [capturing |-> TRUE, captured |-> captured]
CaptureEnter == [capturing |-> TRUE, captured |-> Undefined]

(***************************************************************************)
(* SentryNode.capture, lines 133-141, given the slot as callback() left    *)
(* it: the bridge state afterwards and what the caller gets.               *)
(***************************************************************************)
CaptureLeaveKeepsCapturing(slot) ==
  [capturing |-> TRUE, captured |-> Undefined,
   outcome |-> IF slot = Undefined THEN CaptureFailure ELSE slot]
CaptureLeaveChecksField(slot) ==
  [capturing |-> FALSE, captured |-> Undefined, outcome |-> CaptureFailure]
CaptureLeave(slot) ==
  [capturing |-> FALSE, captured |-> Undefined,
   outcome |-> IF slot = Undefined THEN CaptureFailure ELSE slot]

(***************************************************************************)
(* SentryNode.interceptRavenSend, line 97: the branch taken.               *)
(***************************************************************************)
SendHookStoresNever == FALSE
SendHookStoresInverted == ~capturing
SendHookStores == capturing

(***************************************************************************)
(* SentryNode.interceptRavenBreadcrumb, line 112: the branch taken.        *)
(***************************************************************************)
BreadcrumbHookStoresInverted == ~capturing
BreadcrumbHookStores == capturing

(***************************************************************************)
(* The primitive SentryNode.send calls: the module constant sendRavenEvent *)
(* bound at load time (line 13), before install() replaces Raven.send.     *)
(***************************************************************************)
SendPrimitiveLateBound == ravenSend
SendPrimitive == "original"

(***************************************************************************)
(* The promise of SentryNode.send, lines 66-74.  A promise settles once:   *)
(* resolve/reject on a settled promise is ignored.  `first` remembers the  *)
(* error argument of the first callback the engine made ("nocb": none yet).*)
(***************************************************************************)
Errors == {"none", "ETIMEDOUT"}
NewPromise == [state |-> "pending", reason |-> "none", first |-> "nocb"]
OnCallbackInverted(error) ==
  IF error # "none" THEN [state |-> "resolved", reason |-> "none"]
  ELSE [state |-> "rejected", reason |-> error]
OnCallback(error) ==
  IF error # "none" THEN [state |-> "rejected", reason |-> error]
  ELSE [state |-> "resolved", reason |-> "none"]
Settle(p, error) ==
  LET o == OnCallback(error)
  IN [p EXCEPT !.state = IF p.state = "pending" THEN o.state ELSE @,
               !.reason = IF p.state = "pending" THEN o.reason ELSE @,
               !.first = IF @ = "nocb" THEN error ELSE @]

(***************************************************************************)
(* BrowserBackend.sendEvent, backend.ts lines 201-219.                     *)
(***************************************************************************)
(* new DSN(this.options.dsn): the parsed descriptor of a DSN string.        *)
DSN(str) == [parsedFrom |-> str]

(* this.options.transportOptions: absent, or an object the caller built.    *)
NoTransportOptions == [given |-> FALSE, value |-> [dsn |-> DSN("none"), headers |-> "none"]]
ExplicitTransportOptions ==
  [given |-> TRUE,
   value |-> [dsn |-> DSN("https://key@host/1"), headers |-> "X-Proxy: 1"]]

(* { dsn }, lines 210 and 213.                                              *)
DefaultTransportOptions(d) == [dsn |-> d, headers |-> "none"]

(* Line 210.                                                                *)
ResolveTransportOptions(o, d) ==
  IF o.transportOptions.given THEN o.transportOptions.value
  ELSE DefaultTransportOptions(d)

(* Lines 212-216: the transport constructed, and what its constructor is    *)
(* given.                                                                   *)
NewTransportFetchLast(o, fetch, d) ==
  IF o.transport
  THEN [kind |-> "options.transport", options |-> DefaultTransportOptions(d)]
  ELSE IF ~fetch
       THEN [kind |-> "FetchTransport", options |-> ResolveTransportOptions(o, d)]
       ELSE [kind |-> "XHRTransport", options |-> ResolveTransportOptions(o, d)]
NewTransport(o, fetch, d) ==
  IF o.transport
  THEN [kind |-> "options.transport", options |-> DefaultTransportOptions(d)]
  ELSE IF fetch
       THEN [kind |-> "FetchTransport", options |-> ResolveTransportOptions(o, d)]
       ELSE [kind |-> "XHRTransport", options |-> ResolveTransportOptions(o, d)]

NoSend == [called |-> FALSE, outcome |-> "none", transports |-> <<>>, delivered |-> <<>>]
Responses == {"status: success", "status: failed"}

(* The whole call: what it constructs, which transport's send it invokes    *)
(* and what the caller gets, `response` being what transport.send answers.  *)
SendEventUnchecked(d, o, fetch, response) ==
  LET transport == NewTransport(o, fetch, DSN(d))
  IN [called |-> TRUE, outcome |-> response,
      transports |-> <<transport>>, delivered |-> <<transport.kind>>]
SendEvent(d, o, fetch, response) ==
  IF d = "absent"
  THEN [called |-> TRUE,
        outcome |-> "SentryError: Cannot sendEvent without a valid DSN",
        transports |-> <<>>, delivered |-> <<>>]
  ELSE LET transport == NewTransport(o, fetch, DSN(d))
       IN [called |-> TRUE, outcome |-> response,
           transports |-> <<transport>>, delivered |-> <<transport.kind>>]

(***************************************************************************)
(* Values passed to the normalizer.  `is` holds the shape predicates of    *)
(* @sentry/utils/is that answer true for the value; `name` and `message`   *)
(* are "" when the property is missing or empty (falsy); a wrapped error   *)
(* event has an `error` field exactly when its error property is truthy.   *)
(* `stack` holds the raw frames the value carries: none for a value that   *)
(* was never thrown or is no Error, such as Object.create(Error.prototype), *)
(* which is both a plain object and an Error for the shape predicates.      *)
(***************************************************************************)
Object(is, name, message, keys, frames) ==
  [type |-> "object", is |-> is, name |-> name, message |-> message,
   keys |-> keys, text |-> "", num |-> 0, stack |-> frames]
String(text) ==
  [type |-> "string", is |-> {}, name |-> "", message |-> "",
   keys |-> <<>>, text |-> text, num |-> 0, stack |-> <<>>]
Number(n) ==
  [type |-> "number", is |-> {}, name |-> "", message |-> "",
   keys |-> <<>>, text |-> "", num |-> n, stack |-> <<>>]
UndefinedValue ==
  [type |-> "undefined", is |-> {}, name |-> "", message |-> "",
   keys |-> <<>>, text |-> "", num |-> 0, stack |-> <<>>]
ErrorEvent == Object({"ErrorEvent"}, "", "Script error.", <<>>, <<>>)
Wrap(e) == ErrorEvent @@ [error |-> e]

isErrorEvent(x) == "ErrorEvent" \in x.is
isDOMError(x) == "DOMError" \in x.is
isDOMException(x) == "DOMException" \in x.is
isError(x) == "Error" \in x.is
isPlainObject(x) == "PlainObject" \in x.is
HasError(x) == "error" \in DOMAIN x

ThrowSite == <<"at throwing (app.js:10:5)", "at main (app.js:2:1)">>
Names == {"", "AbortError"}
Messages == {"", "bad"}
Stacks == {<<>>, ThrowSite}
ErrorShapes ==
  {x \in {Object(is, n, m, <<>>, st) :
            is \in {{"Error"}, {"DOMError"}, {"DOMException"},
                    {"DOMException", "Error"}, {"PlainObject", "Error"}},
            n \in Names, m \in Messages, st \in Stacks} :
     /\ x.stack # <<>> => "Error" \in x.is
     /\ "PlainObject" \in x.is => x.stack = <<>>}
PlainObjects ==
  {Object({"PlainObject"}, "", "", keys, <<>>) :
     keys \in {<<>>, <<"code", "reason">>, <<"message">>}}
Primitives == {String("oops"), String(""), Number(42), Number(7), UndefinedValue}
Unwrapped == ErrorShapes \cup PlainObjects \cup Primitives \cup {ErrorEvent}
(* The truthiness test of `exception.error`, line 94.                       *)
Truthy(x) ==
  CASE x.type = "undefined" -> FALSE
    [] x.type = "string" -> x.text # ""
    [] x.type = "number" -> x.num # 0
    [] OTHER -> TRUE
Inputs == Unwrapped \cup {Wrap(e) : e \in {u \in Unwrapped : Truthy(u)}}

(***************************************************************************)
(* String(message), line 147, and the template literal of line 105.        *)
(***************************************************************************)
Digits == <<"0", "1", "2", "3", "4", "5", "6", "7", "8", "9">>
RECURSIVE Decimal(_)
Decimal(n) ==
  IF n < 10 THEN Digits[n + 1] ELSE Decimal(n \div 10) \o Digits[(n % 10) + 1]

StringOf(x) ==
  CASE x.type = "string" -> x.text
    [] x.type = "number" -> Decimal(x.num)
    [] x.type = "undefined" -> "undefined"
    [] OTHER ->
         IF isError(x)
         THEN (IF x.name = "" THEN "Error" ELSE x.name)
                \o (IF x.message = "" THEN "" ELSE ": " \o x.message)
         ELSE IF isErrorEvent(x) THEN "[object ErrorEvent]"
         ELSE IF isDOMError(x) THEN "[object DOMError]"
         ELSE IF isDOMException(x) THEN "[object DOMException]"
         ELSE "[object Object]"

(***************************************************************************)
(* Collaborators of the normalizer that live in ./tracekit and ./parsers.  *)
(***************************************************************************)
(* computeStackTrace(exception): the raw frames of the value, with the name *)
(* and message it carries.                                                  *)
computeStackTrace(ex) == [name |-> ex.name, message |-> ex.message, stack |-> ex.stack]

(* prepareFramesForEvent(stack): the frames of an Event.                    *)
prepareFramesForEvent(raw) == [i \in 1..Len(raw) |-> [raw |-> raw[i]]]

(* eventFromStacktrace(stacktrace): an Event with an exception descriptor.  *)
eventFromStacktrace(st) ==
  [exception |-> [type |-> st.name, value |-> st.message,
                  frames |-> prepareFramesForEvent(st.stack)]]

(* getEventOptionsFromPlainObject(exception).message: a message naming the  *)
(* object's top-level keys.                                                 *)
RECURSIVE JoinKeys(_)
JoinKeys(keys) ==
  IF keys = <<>> THEN ""
  ELSE IF Len(keys) = 1 THEN keys[1]
  ELSE keys[1] \o ", " \o JoinKeys(Tail(keys))
getEventOptionsFromPlainObject(x) ==
  [message |-> "Non-Error exception captured with keys: " \o JoinKeys(x.keys)]

(* new Error(message) created inside the backend (lines 116 and 157).       *)
NewError(message, site) ==
  Object({"Error"}, "Error", message, <<>>, <<site, "at caller (app.js:1:1)">>)

(***************************************************************************)
(* BrowserBackend.eventFromMessage, lines 146-173.  `traced` is the value  *)
(* handed to computeStackTrace.                                            *)
(***************************************************************************)
SyntheticException(message) ==
  [NewError(StringOf(message), "at eventFromMessage (backend.ts:157)")
     EXCEPT !.name = ""]

eventFromMessageUncoerced(message) ==
  LET stacktrace == computeStackTrace(SyntheticException(message))
      frames == prepareFramesForEvent(stacktrace.stack)
  IN [fingerprint |-> <<message.text>>, message |-> message.text,
      stacktrace |-> [frames |-> frames]]
eventFromMessage(message) ==
  LET text == StringOf(message)
      stacktrace == computeStackTrace(SyntheticException(message))
      frames == prepareFramesForEvent(stacktrace.stack)
  IN [fingerprint |-> <<text>>, message |-> text, stacktrace |-> [frames |-> frames]]

(***************************************************************************)
(* BrowserBackend.eventFromException, lines 93-141.                        *)
(***************************************************************************)
(* The branch of the if-chain of lines 94-125 that is taken.                *)
BranchPlainBeforeError(x) ==
  IF isErrorEvent(x) /\ HasError(x) THEN "wrapped"
  ELSE IF isDOMError(x) \/ isDOMException(x) THEN "dom"
  ELSE IF isPlainObject(x) THEN "plain"
  ELSE IF isError(x) THEN "error"
  ELSE "other"
BranchErrorFirst(x) ==
  IF isErrorEvent(x) /\ HasError(x) THEN "wrapped"
  ELSE IF isError(x) THEN "error"
  ELSE IF isDOMError(x) \/ isDOMException(x) THEN "dom"
  ELSE IF isPlainObject(x) THEN "plain"
  ELSE "other"
Branch(x) ==
  IF isErrorEvent(x) /\ HasError(x) THEN "wrapped"
  ELSE IF isDOMError(x) \/ isDOMException(x) THEN "dom"
  ELSE IF isError(x) THEN "error"
  ELSE IF isPlainObject(x) THEN "plain"
  ELSE "other"

(* Lines 102-106.                                                           *)
DomMessageSwappedDefault(x) ==
  LET name == IF x.name # "" THEN x.name
              ELSE IF isDOMError(x) THEN "DOMException" ELSE "DOMError"
  IN IF x.message # "" THEN name \o ": " \o x.message ELSE name
DomMessage(x) ==
  LET name == IF x.name # "" THEN x.name
              ELSE IF isDOMError(x) THEN "DOMError" ELSE "DOMException"
  IN IF x.message # "" THEN name \o ": " \o x.message ELSE name

(* The value of `exception` at line 129, for the branches that reach it.    *)
ExceptionAtLine129(x) ==
  CASE Branch(x) = "wrapped" -> x.error
    [] Branch(x) = "plain" ->
         NewError(getEventOptionsFromPlainObject(x).message,
                  "at eventFromException (backend.ts:116)")
    [] OTHER -> x

(* Lines 129-140.                                                           *)
ExceptionPathNoMechanism(ex) == eventFromStacktrace(computeStackTrace(ex))
ExceptionPath(ex) ==
  LET event == eventFromStacktrace(computeStackTrace(ex))
      descriptor == IF "exception" \in DOMAIN event THEN event.exception ELSE <<>>
  IN [k \in DOMAIN event \cup {"exception"} |->
        IF k = "exception"
        THEN [f \in DOMAIN descriptor \cup {"mechanism"} |->
                IF f = "mechanism" THEN [handled |-> TRUE, type |-> "generic"]
                ELSE descriptor[f]]
        ELSE event[k]]

eventFromException(x) ==
  CASE Branch(x) = "dom" -> eventFromMessage(String(DomMessage(x)))
    [] Branch(x) = "other" -> eventFromMessage(x)
    [] OTHER -> ExceptionPath(ExceptionAtLine129(x))

(* The value handed to computeStackTrace by the call (line 129 or 164).     *)
TracedByException(x) ==
  CASE Branch(x) = "dom" -> SyntheticException(String(DomMessage(x)))
    [] Branch(x) = "other" -> SyntheticException(x)
    [] OTHER -> ExceptionAtLine129(x)

NoNorm == [op |-> "none", input |-> UndefinedValue, traced |-> UndefinedValue,
           event |-> [message |-> ""]]

(***************************************************************************)
(* Initial state: after construction of the adapter (capturing = false,    *)
(* captured undefined), Raven's own primitives in place.                   *)
(***************************************************************************)
Init ==
  /\ adapter \in {"node", "browser"}
  /\ dsn \in {"absent", "https://key@host/1"}
  /\ ravenSend = "original"
  /\ ravenCaptureBreadcrumb = "original"
  /\ installed = FALSE
  /\ capturing = FALSE
  /\ captured = Undefined
  /\ stack = <<>>
  /\ nextId = 1
  /\ hookSend = NoCounts
  /\ clientSend = NoCounts
  /\ origSend = NoCounts
  /\ clientCrumb = NoCounts
  /\ origCrumb = NoCounts
  /\ hookCrumb = NoCounts
  /\ last = NoCall
  /\ promises = <<>>
  /\ options \in [transport : IF adapter = "browser" THEN BOOLEAN ELSE {FALSE},
                  transportOptions :
                    IF adapter = "browser"
                    THEN {NoTransportOptions, ExplicitTransportOptions}
                    ELSE {NoTransportOptions}]
  /\ fetchSupported \in (IF adapter = "browser" THEN BOOLEAN ELSE {FALSE})
  /\ lastSend = NoSend
  /\ norm = NoNorm

(***************************************************************************)
(* SentryNode.install.  `this.client.dsn.toString(true)` raises a          *)
(* TypeError when the Client has no DSN, before any hook is replaced, so   *)
(* only an adapter with a DSN gets installed.                              *)
(***************************************************************************)
Install ==
  /\ adapter = "node"
  /\ ~installed
  /\ Idle
  /\ dsn # "absent"
  /\ ravenSend' = "hook"
  /\ ravenCaptureBreadcrumb' = "hook"
  /\ installed' = TRUE
  /\ UNCHANGED <<adapter, dsn, browserVars, capturing, captured, stack, nextId, hookSend,
                 clientSend, origSend, clientCrumb, origCrumb, hookCrumb, last,
                 promises>>

(***************************************************************************)
(* Raven.send(e) is invoked with the frames s in progress: the engine's    *)
(* own primitive, or interceptRavenSend (lines 96-109).                    *)
(***************************************************************************)
InvokeSend(p, e, s) ==
  IF p = "original"
  THEN /\ origSend' = Bump(origSend, e)
       /\ stack' = s
       /\ UNCHANGED <<hookSend, clientSend, captured>>
  ELSE /\ hookSend' = Bump(hookSend, e)
       /\ IF SendHookStores
          THEN /\ captured' = e
               /\ stack' = NoteHook(s, e)
               /\ UNCHANGED <<clientSend, origSend>>
          ELSE /\ clientSend' = Bump(clientSend, e)
               /\ stack' = Append(NoteHook(s, e), ClientFrame("Client.send", e))
               /\ UNCHANGED <<captured, origSend>>

(***************************************************************************)
(* Raven.captureBreadcrumb(c) is invoked with the frames s in progress:    *)
(* the engine's own primitive, or interceptRavenBreadcrumb (lines 111-126),*)
(* which records through captureRavenBreadcrumb when capturing.            *)
(***************************************************************************)
InvokeBreadcrumb(p, c, s) ==
  IF p = "original"
  THEN /\ origCrumb' = Bump(origCrumb, c)
       /\ stack' = s
       /\ UNCHANGED <<hookCrumb, clientCrumb, captured>>
  ELSE /\ hookCrumb' = Bump(hookCrumb, c)
       /\ IF BreadcrumbHookStores
          THEN /\ origCrumb' = Bump(origCrumb, c)
               /\ captured' = c
               /\ stack' = NoteHook(s, c)
               /\ UNCHANGED clientCrumb
          ELSE /\ clientCrumb' = Bump(clientCrumb, c)
               /\ stack' = Append(NoteHook(s, c), ClientFrame("Client.captureBreadcrumb", c))
               /\ UNCHANGED <<captured, origCrumb>>

(***************************************************************************)
(* SentryNode.captureException / captureMessage / captureBreadcrumb up to  *)
(* the call of callback() (capture, lines 129-131).  The caller is the     *)
(* Client with nothing in progress, or code the engine runs during a       *)
(* bridged operation (a data callback, a wrapped function): a nested call. *)
(***************************************************************************)
BeginCapture(op, a) ==
  /\ capturing' = CaptureEnter.capturing
  /\ captured' = CaptureEnter.captured
  /\ stack' = Append(NoteNested(stack), CaptureFrame(op, a))

CaptureEvent(op) ==
  /\ adapter = "node" /\ installed
  /\ Idle \/ InEngineOp
  /\ Len(stack) < MaxDepth
  /\ BeginCapture(op, Undefined)
  /\ UNCHANGED <<adapter, dsn, browserVars, ravenSend, ravenCaptureBreadcrumb, installed,
                 nextId, hookSend, clientSend, origSend, clientCrumb, origCrumb,
                 hookCrumb, last, promises>>

CaptureException == CaptureEvent("captureException")
CaptureMessage == CaptureEvent("captureMessage")

(* The Client (or code run by the engine) captures a breadcrumb it made.    *)
CaptureBreadcrumb ==
  /\ adapter = "node" /\ installed
  /\ Idle \/ InEngineOp
  /\ Len(stack) < MaxDepth
  /\ nextId <= MaxArtifacts
  /\ BeginCapture("captureBreadcrumb", Breadcrumb(nextId))
  /\ nextId' = nextId + 1
  /\ UNCHANGED <<adapter, dsn, browserVars, ravenSend, ravenCaptureBreadcrumb, installed,
                 hookSend, clientSend, origSend, clientCrumb, origCrumb,
                 hookCrumb, last, promises>>

(* The Client, handed a breadcrumb by the hook, passes it back to the       *)
(* adapter (node.ts lines 120-123).                                         *)
ClientCapturesForwardedBreadcrumb ==
  /\ adapter = "node"
  /\ InClient("Client.captureBreadcrumb") /\ ~Top.called
  /\ Len(stack) < MaxDepth + 1
  /\ capturing' = CaptureEnter.capturing
  /\ captured' = CaptureEnter.captured
  /\ stack' = Append(NoteNested(MarkCalled(stack)),
                     CaptureFrame("captureBreadcrumb", Top.arg))
  /\ UNCHANGED <<adapter, dsn, browserVars, ravenSend, ravenCaptureBreadcrumb, installed,
                 nextId, hookSend, clientSend, origSend, clientCrumb, origCrumb,
                 hookCrumb, last, promises>>

(* The callback of captureBreadcrumb: Raven.captureBreadcrumb(breadcrumb),  *)
(* line 62.                                                                 *)
BreadcrumbOperation ==
  /\ adapter = "node"
  /\ InBreadcrumbOp /\ ~Top.called
  /\ InvokeBreadcrumb(ravenCaptureBreadcrumb, Top.arg, MarkCalled(stack))
  /\ UNCHANGED <<adapter, dsn, browserVars, ravenSend, ravenCaptureBreadcrumb, installed,
                 capturing, nextId, hookSend, clientSend, origSend, last,
                 promises>>

(***************************************************************************)
(* The engine calls Raven.send(event) with an event it built: while it     *)
(* runs a bridged operation, or on its own (its uncaught-exception         *)
(* handler, a wrapped function) with nothing in progress.                  *)
(***************************************************************************)
EngineSend ==
  /\ adapter = "node" /\ installed
  /\ Idle \/ InEngineOp
  /\ nextId <= MaxArtifacts
  /\ InvokeSend(ravenSend, Event(nextId), stack)
  /\ nextId' = nextId + 1
  /\ UNCHANGED <<adapter, dsn, browserVars, ravenSend, ravenCaptureBreadcrumb, installed,
                 capturing, clientCrumb, origCrumb, hookCrumb, last, promises>>

(* The engine calls Raven.captureBreadcrumb(crumb) with a breadcrumb of its *)
(* own instrumentation.                                                     *)
EngineBreadcrumb ==
  /\ adapter = "node" /\ installed
  /\ Idle \/ InEngineOp
  /\ nextId <= MaxArtifacts
  /\ InvokeBreadcrumb(ravenCaptureBreadcrumb, Breadcrumb(nextId), stack)
  /\ nextId' = nextId + 1
  /\ UNCHANGED <<adapter, dsn, browserVars, ravenSend, ravenCaptureBreadcrumb, installed,
                 capturing, hookSend, clientSend, origSend, last, promises>>

(***************************************************************************)
(* callback() returns: SentryNode.capture, lines 133-141.                  *)
(***************************************************************************)
CaptureReturn ==
  /\ adapter = "node"
  /\ InEngineOp \/ (InBreadcrumbOp /\ Top.called)
  /\ LET r == CaptureLeave(captured)
     IN /\ capturing' = r.capturing
        /\ captured' = r.captured
        /\ last' = [returns |-> Returns(Top.op), hooks |-> Top.hooks, nested |-> Top.nested,
                    outcome |-> r.outcome]
  /\ stack' = Pop(stack)
  /\ UNCHANGED <<adapter, dsn, browserVars, ravenSend, ravenCaptureBreadcrumb, installed,
                 nextId, hookSend, clientSend, origSend, clientCrumb, origCrumb,
                 hookCrumb, promises>>

(* callback() raises: the engine operation failed.  capture has no          *)
(* try/finally, so lines 133-141 are skipped and the error reaches the      *)
(* caller of the bridged call.                                              *)
OperationThrows ==
  /\ adapter = "node"
  /\ InEngineOp
  /\ last' = [returns |-> Returns(Top.op), hooks |-> Top.hooks, nested |-> Top.nested,
              outcome |-> Threw]
  /\ stack' = Pop(stack)
  /\ UNCHANGED <<adapter, dsn, browserVars, ravenSend, ravenCaptureBreadcrumb, installed,
                 capturing, captured, nextId, hookSend, clientSend, origSend,
                 clientCrumb, origCrumb, hookCrumb, promises>>

(***************************************************************************)
(* SentryNode.send(event), lines 65-75: a new promise, and the event       *)
(* handed to sendRavenEvent.                                               *)
(***************************************************************************)
SendBody(e, s) ==
  /\ Len(promises) < MaxSends
  /\ promises' = Append(promises, NewPromise)
  /\ InvokeSend(SendPrimitive, e, s)

(* The Client sends an event: one a bridged call returned to it, or one it  *)
(* built itself.                                                            *)
Send ==
  /\ adapter = "node"
  /\ Idle
  /\ \E fresh \in BOOLEAN :
       IF fresh
       THEN /\ nextId <= MaxArtifacts
            /\ SendBody(Event(nextId), stack)
            /\ nextId' = nextId + 1
       ELSE /\ last.outcome.kind = "event"
            /\ SendBody(last.outcome, stack)
            /\ nextId' = nextId
  /\ UNCHANGED <<adapter, dsn, browserVars, ravenSend, ravenCaptureBreadcrumb, installed,
                 capturing, clientCrumb, origCrumb, hookCrumb, last>>

(* The Client, handed an event by the send hook, sends it (node.ts lines    *)
(* 103-107).                                                                *)
ClientSendsForwardedEvent ==
  /\ adapter = "node"
  /\ InClient("Client.send") /\ ~Top.called
  /\ SendBody(Top.arg, MarkCalled(stack))
  /\ UNCHANGED <<adapter, dsn, browserVars, ravenSend, ravenCaptureBreadcrumb, installed,
                 capturing, nextId, clientCrumb, origCrumb, hookCrumb, last>>

(* Client.send / Client.captureBreadcrumb returns to the hook, which        *)
(* returns to the engine.                                                   *)
ClientReturns ==
  /\ adapter = "node"
  /\ InClient("Client.send") \/ InClient("Client.captureBreadcrumb")
  /\ stack' = Pop(stack)
  /\ UNCHANGED <<adapter, dsn, browserVars, ravenSend, ravenCaptureBreadcrumb, installed,
                 capturing, captured, nextId, hookSend, clientSend, origSend,
                 clientCrumb, origCrumb, hookCrumb, last, promises>>

(* The engine calls back the function sendRavenEvent was given, lines 67-73, *)
(* from its I/O completion: with nothing of the adapter on the stack.       *)
SendCallback ==
  /\ adapter = "node" /\ Idle
  /\ \E i \in 1..Len(promises), error \in Errors :
       promises' = [promises EXCEPT ![i] = Settle(@, error)]
  /\ UNCHANGED <<adapter, dsn, browserVars, ravenSend, ravenCaptureBreadcrumb, installed,
                 capturing, captured, stack, nextId, hookSend, clientSend,
                 origSend, clientCrumb, origCrumb, hookCrumb, last>>

(***************************************************************************)
(* The Client calls the browser backend.                                   *)
(***************************************************************************)
BrowserSendEvent ==
  /\ adapter = "browser"
  /\ \E response \in Responses :
       lastSend' = SendEvent(dsn, options, fetchSupported, response)
  /\ UNCHANGED <<adapter, dsn, nodeVars, options, fetchSupported, norm>>

BrowserEventFromException ==
  /\ adapter = "browser"
  /\ \E x \in Inputs :
       norm' = [op |-> "eventFromException", input |-> x,
                traced |-> TracedByException(x), event |-> eventFromException(x)]
  /\ UNCHANGED <<adapter, dsn, nodeVars, options, fetchSupported, lastSend>>

BrowserEventFromMessage ==
  /\ adapter = "browser"
  /\ \E m \in Unwrapped :
       norm' = [op |-> "eventFromMessage", input |-> m,
                traced |-> SyntheticException(m), event |-> eventFromMessage(m)]
  /\ UNCHANGED <<adapter, dsn, nodeVars, options, fetchSupported, lastSend>>

(***************************************************************************)
(* Properties of the capture bridge.                                       *)
(***************************************************************************)
(* This step is callback() returning normally from the innermost bridged    *)
(* call (not raising).                                                      *)
ReturnStep ==
  /\ stack # <<>> /\ Top.fn = "capture"
  /\ stack' = Pop(stack)
  /\ last'.outcome # Threw

(* C1: a bridged call inside which no other bridged call ran and whose      *)
(* operation made exactly one hook fire returns exactly the artifact that   *)
(* was passed to that hook, whatever earlier calls left behind.             *)
C1_ReturnsOwnArtifact ==
  [][(ReturnStep /\ ~Top.nested /\ Top.hooks = 1 /\ Len(Top.fired) = 1)
       => last'.outcome = Top.fired[1]]_vars

(* A second artifact was returned by a call with a single hook firing,      *)
(* after artifact 1 had been stored in the slot by an earlier hook firing.  *)
C1_Witness ==
  /\ last.hooks = 1 /\ ~last.nested
  /\ IsArtifact(last.outcome) /\ last.outcome.id = 2
  /\ hookSend[1] + hookCrumb[1] > 0 /\ clientSend[1] + clientCrumb[1] = 0

(* C2: a bridged call during which no hook fired fails with the error of    *)
(* line 138 and returns no artifact, whatever earlier calls produced.       *)
C2_NoHookFails ==
  [][(ReturnStep /\ Top.hooks = 0) => last'.outcome = CaptureFailure]_vars

(* A call failed for want of a hook firing although an earlier artifact had *)
(* been stored in the slot.                                                 *)
C2_Witness ==
  /\ last.outcome = CaptureFailure /\ last.hooks = 0
  /\ hookSend[1] + hookCrumb[1] > 0 /\ clientSend[1] + clientCrumb[1] = 0

(* C3: when the send hook fires with event i: capturing => the event is put *)
(* in the slot and Client.send is not called; otherwise Client.send gets    *)
(* the event exactly once and the slot is left as it was.                   *)
C3_SendHookRouting ==
  [][\A i \in Ids :
       hookSend'[i] = hookSend[i] + 1 =>
         IF capturing
         THEN captured' = Event(i) /\ clientSend' = clientSend
         ELSE clientSend' = Bump(clientSend, Event(i)) /\ captured' = captured]_vars

(* Both branches were taken: one event stored, another forwarded.           *)
C3_Witness ==
  \E i, j \in Ids :
    /\ hookSend[i] = 1 /\ clientSend[i] = 0
    /\ hookSend[j] = 1 /\ clientSend[j] = 1

(* C4: when the breadcrumb hook fires with breadcrumb i: capturing => it is *)
(* recorded through captureRavenBreadcrumb and put in the slot, and the     *)
(* Client is not called; otherwise it is passed to Client.captureBreadcrumb *)
(* and neither recorded nor put in the slot.                                *)
C4_BreadcrumbHookRouting ==
  [][\A i \in Ids :
       hookCrumb'[i] = hookCrumb[i] + 1 =>
         IF capturing
         THEN /\ origCrumb' = Bump(origCrumb, Breadcrumb(i))
              /\ captured' = Breadcrumb(i)
              /\ clientCrumb' = clientCrumb
         ELSE /\ clientCrumb' = Bump(clientCrumb, Breadcrumb(i))
              /\ origCrumb' = origCrumb
              /\ captured' = captured]_vars

(* Both branches were taken: one breadcrumb recorded and stored, another    *)
(* only forwarded to the Client.                                            *)
C4_Witness ==
  \E i, j \in Ids :
    /\ hookCrumb[i] = 1 /\ origCrumb[i] = 1 /\ clientCrumb[i] = 0
    /\ hookCrumb[j] = 1 /\ origCrumb[j] = 0 /\ clientCrumb[j] = 1

(* The events the operation of frame f has produced so far were delivered   *)
(* neither to Client.send nor to sendRavenEvent.                            *)
Undelivered(f) ==
  \A n \in 1..Len(f.fired) :
    f.fired[n].kind = "event" =>
      clientSend[f.fired[n].id] = 0 /\ origSend[f.fired[n].id] = 0

EventCall(f) ==
  f.fn = "capture" /\ f.op \in {"captureException", "captureMessage"}

(* C5 as stated: while a captureException / captureMessage call is in       *)
(* progress, the events it produced reached neither Client.send nor the     *)
(* engine's original send primitive.                                        *)
C5_Original ==
  \A k \in 1..Len(stack) : EventCall(stack[k]) => Undelivered(stack[k])

(* C5 amended: the same, for a call inside which no bridged call was        *)
(* started.                                                                 *)
C5_NotDeliveredDuringCall ==
  \A k \in 1..Len(stack) :
    (EventCall(stack[k]) /\ ~stack[k].nested) => Undelivered(stack[k])

(* An explicit call, with nothing nested in it, has produced its event and  *)
(* has not returned yet.                                                    *)
C5_Witness ==
  \E k \in 1..Len(stack) :
    /\ EventCall(stack[k]) /\ ~stack[k].nested
    /\ Len(stack[k].fired) = 1 /\ stack[k].fired[1].kind = "event"

(* The promise of a send call is decided by the first callback the engine   *)
(* makes and by nothing after it.                                           *)
SettledByFirstCallback(p) ==
  /\ p.first = "nocb" => p.state = "pending"
  /\ p.first = "none" => p.state = "resolved"
  /\ p.first \notin {"nocb", "none"} => p.state = "rejected" /\ p.reason = p.first

(* C6: every call of SentryNode.send hands its event to the engine's        *)
(* original send primitive and does not pass through the send hook or       *)
(* Client.send again; its promise resolves when the engine's callback       *)
(* reports no error, rejects with the reported error otherwise, and is      *)
(* settled by the first callback only.                                      *)
C6_SendUsesOriginal ==
  /\ [][Len(promises') > Len(promises) =>
          /\ hookSend' = hookSend /\ clientSend' = clientSend
          /\ \E i \in Ids : origSend' = [origSend EXCEPT ![i] = @ + 1]]_vars
  /\ [](\A k \in 1..Len(promises) : SettledByFirstCallback(promises[k]))

(* An event the hook forwarded to Client.send was sent through the adapter  *)
(* and its promise rejected.                                                *)
C6_Witness ==
  /\ \E i \in Ids : hookSend[i] = 1 /\ clientSend[i] = 1 /\ origSend[i] = 1
  /\ \E k \in 1..Len(promises) : promises[k].state = "rejected"

(***************************************************************************)
(* Properties of the transport dispatch.                                   *)
(***************************************************************************)
MissingDsnError == "SentryError: Cannot sendEvent without a valid DSN"

(* C7 as stated: with no DSN, sending fails with a configuration error on   *)
(* both adapters, before any transport is constructed or any delivery       *)
(* primitive is invoked.                                                    *)
C7_Original ==
  dsn = "absent" =>
    /\ lastSend.called =>
         /\ lastSend.outcome = MissingDsnError
         /\ lastSend.transports = <<>> /\ lastSend.delivered = <<>>
    /\ \A i \in Ids : origSend[i] = 0
    /\ \A k \in 1..Len(promises) : promises[k].state = "rejected"

(* C7 amended: with no DSN, sendEvent of the browser backend fails with the *)
(* SentryError of line 205, having constructed no transport and invoked no  *)
(* transport's send.                                                        *)
C7_BrowserFailsWithoutDsn ==
  (adapter = "browser" /\ dsn = "absent" /\ lastSend.called) =>
    /\ lastSend.outcome = MissingDsnError
    /\ lastSend.transports = <<>>
    /\ lastSend.delivered = <<>>

(* sendEvent was called on a browser backend configured without a DSN.      *)
C7_Witness == adapter = "browser" /\ dsn = "absent" /\ lastSend.called

(* C8: with a DSN, sendEvent constructs exactly one transport, and which    *)
(* one is decided by (explicit constructor given?, fetch supported?) alone: *)
(* the explicit one, else fetch when supported, else XHR.                   *)
C8_TransportSelection ==
  (lastSend.called /\ dsn # "absent") =>
    /\ Len(lastSend.transports) = 1
    /\ options.transport => lastSend.transports[1].kind = "options.transport"
    /\ (~options.transport /\ fetchSupported) =>
         lastSend.transports[1].kind = "FetchTransport"
    /\ (~options.transport /\ ~fetchSupported) =>
         lastSend.transports[1].kind = "XHRTransport"
    /\ lastSend.delivered = <<lastSend.transports[1].kind>>

(* Without fetch and without an explicit constructor, but with explicit     *)
(* transport options, the XHR transport was constructed.                    *)
C8_Witness ==
  /\ lastSend.called /\ dsn # "absent"
  /\ ~options.transport /\ ~fetchSupported /\ options.transportOptions.given
  /\ lastSend.transports[1].kind = "XHRTransport"

(* C9 as stated: whichever transport is constructed is given the resolved   *)
(* transport options: the configured transportOptions when there are any,   *)
(* else the default built from the DSN.                                     *)
C9_Original ==
  (lastSend.called /\ dsn # "absent") =>
    \A k \in 1..Len(lastSend.transports) :
      lastSend.transports[k].options =
        IF options.transportOptions.given THEN options.transportOptions.value
        ELSE DefaultTransportOptions(DSN(dsn))

(***************************************************************************)
(* Properties of the normalizer.                                           *)
(***************************************************************************)
Wrapped(x) == isErrorEvent(x) /\ HasError(x)
LegacyDomShape(x) == ~Wrapped(x) /\ (isDOMError(x) \/ isDOMException(x))
Primitive(x) == x.type # "object"
PlainData(x) ==
  ~Wrapped(x) /\ isPlainObject(x) /\ ~isError(x) /\ ~isDOMError(x) /\ ~isDOMException(x)

(* C10 as stated: for legacy DOM shapes, primitives and plain data objects  *)
(* the Event has no exception descriptor, only message and stacktrace (and  *)
(* the fingerprint of the message path); for a plain data object the        *)
(* message is the one synthesized from its keys.                            *)
C10_Original ==
  (norm.op = "eventFromException"
     /\ (LegacyDomShape(norm.input) \/ Primitive(norm.input) \/ PlainData(norm.input))) =>
    /\ "exception" \notin DOMAIN norm.event
    /\ "message" \in DOMAIN norm.event
    /\ PlainData(norm.input) =>
         norm.event.message = getEventOptionsFromPlainObject(norm.input).message

(* C10 amended: for legacy DOM shapes and primitives the Event has no       *)
(* exception descriptor, only fingerprint, message and stacktrace; a plain  *)
(* data object takes the exception path: an Error carrying the message      *)
(* synthesized from its keys is handed to stack computation and the Event   *)
(* has an exception descriptor with mechanism {handled: true, generic}.     *)
C10_DescriptorOnlyForPlainData ==
  norm.op = "eventFromException" =>
    /\ (LegacyDomShape(norm.input) \/ Primitive(norm.input)) =>
         DOMAIN norm.event = {"fingerprint", "message", "stacktrace"}
    /\ PlainData(norm.input) =>
         /\ "exception" \in DOMAIN norm.event
         /\ norm.event.exception.mechanism = [handled |-> TRUE, type |-> "generic"]
         /\ isError(norm.traced)
         /\ norm.traced.message = getEventOptionsFromPlainObject(norm.input).message

(* A plain data object with keys was normalized.                            *)
C10_Witness ==
  /\ norm.op = "eventFromException"
  /\ PlainData(norm.input) /\ norm.input.keys = <<"code", "reason">>
  /\ "exception" \in DOMAIN norm.event

(* C11 as stated: for a wrapped error event carrying an inner error e, the   *)
(* result of eventFromException equals eventFromException(e), whatever the  *)
(* shape of e.                                                              *)
C11_Original ==
  (norm.op = "eventFromException" /\ Wrapped(norm.input)) =>
    norm.event = eventFromException(norm.input.error)

StandardError(x) == ~Wrapped(x) /\ ~LegacyDomShape(x) /\ isError(x)
GenericMechanism == [handled |-> TRUE, type |-> "generic"]

(* The Event has an exception descriptor that carries the frames computed   *)
(* from the value x and the mechanism of line 135.                          *)
DescriptorOf(event, x) ==
  /\ "exception" \in DOMAIN event
  /\ {"frames", "mechanism"} \subseteq DOMAIN event.exception
  /\ event.exception.frames = prepareFramesForEvent(computeStackTrace(x).stack)
  /\ event.exception.mechanism = GenericMechanism

(* C12 as stated: for every input classified as a standard error the Event  *)
(* has an exception descriptor with the frame list computed from the input, *)
(* which is not empty, and the mechanism {handled: true, type: "generic"}.  *)
C12_Original ==
  (norm.op = "eventFromException" /\ StandardError(norm.input)) =>
    /\ DescriptorOf(norm.event, norm.input)
    /\ norm.event.exception.frames # <<>>

(* C12 amended: the same, with the frame list being whatever stack          *)
(* computation finds for the input, which is empty for an error that        *)
(* carries no frames.                                                       *)
C12_StandardErrorDescriptor ==
  (norm.op = "eventFromException" /\ StandardError(norm.input)) =>
    /\ DescriptorOf(norm.event, norm.input)
    /\ norm.traced = norm.input
    /\ Len(norm.event.exception.frames) = Len(norm.input.stack)

(* A thrown standard error was normalized: the descriptor has its frames.   *)
C12_Witness ==
  /\ norm.op = "eventFromException" /\ StandardError(norm.input)
  /\ norm.input.stack = ThrowSite
  /\ Len(norm.event.exception.frames) = Len(ThrowSite)
  /\ norm.event.exception.mechanism = GenericMechanism

(* C13: eventFromMessage(m) returns an Event whose message is String(m),     *)
(* whose fingerprint is the one-element sequence of that string, whose      *)
(* stacktrace holds the frames of an error created inside eventFromMessage  *)
(* with that message and its name suppressed, and which has no exception    *)
(* descriptor; the call returns the Event, the synthetic error is caught.   *)
C13_EventFromMessage ==
  norm.op = "eventFromMessage" =>
    /\ DOMAIN norm.event = {"fingerprint", "message", "stacktrace"}
    /\ norm.event.message = StringOf(norm.input)
    /\ norm.input = Number(42) => norm.event.message = "42"
    /\ norm.input = UndefinedValue => norm.event.message = "undefined"
    /\ norm.input = String("oops") => norm.event.message = "oops"
    /\ norm.event.fingerprint = <<norm.event.message>>
    /\ isError(norm.traced) /\ norm.traced.name = ""
    /\ norm.traced.message = norm.event.message
    /\ norm.traced.stack[1] = "at eventFromMessage (backend.ts:157)"
    /\ norm.event.stacktrace.frames = prepareFramesForEvent(norm.traced.stack)

(* A number was given as the message and came back as its decimal string.   *)
C13_Witness ==
  /\ norm.op = "eventFromMessage" /\ norm.input = Number(42)
  /\ norm.event.fingerprint = <<"42">>
  /\ Len(norm.event.stacktrace.frames) = 2

(***************************************************************************)
(* Properties of the capture bridge under reentrancy and failure.          *)
(***************************************************************************)
(* A bridged call is in progress below the innermost frame.                 *)
HasOuter == \E k \in 1..(Len(stack) - 1) : stack[k].fn = "capture"

(* The call that returns in this step failed with CaptureFailure or         *)
(* returned an artifact its own operation did not produce.                  *)
Corrupted ==
  \/ last'.outcome = CaptureFailure
  \/ /\ IsArtifact(last'.outcome)
     /\ \A n \in 1..Len(Top.fired) : Top.fired[n] # last'.outcome

(* C14 as stated: when a bridged call is started inside another, both the   *)
(* inner and the outer call are corrupted: each fails with CaptureFailure   *)
(* or returns an artifact that is not its own.                              *)
C14_Original ==
  [][(ReturnStep /\ (Top.nested \/ HasOuter)) => Corrupted]_vars

(* C14 amended: a nested bridged call clears the slot when it starts and    *)
(* leaves capturing false when it returns, and no error other than          *)
(* CaptureFailure comes of it.  The outer call fails with CaptureFailure    *)
(* when the last call completed inside it returned normally; the inner      *)
(* call is not corrupted: with one hook firing it returns its own artifact. *)
C14_OuterCallCorrupted ==
  /\ [][(Len(stack') = Len(stack) + 1 /\ stack'[Len(stack')].fn = "capture"
           /\ \E k \in 1..Len(stack) : stack[k].fn = "capture")
          => captured' = Undefined /\ capturing']_vars
  /\ [][(ReturnStep /\ HasOuter) => ~capturing' /\ captured' = Undefined]_vars
  /\ [][(ReturnStep /\ Top.nested) =>
          /\ last'.outcome = CaptureFailure \/ IsArtifact(last'.outcome)
          /\ last.outcome # Threw => last'.outcome = CaptureFailure]_vars
  /\ [][(ReturnStep /\ HasOuter /\ ~Top.nested /\ Top.hooks = 1 /\ Len(Top.fired) = 1)
          => last'.outcome = Top.fired[1]]_vars

(* An outer call whose operation fired a hook failed with CaptureFailure    *)
(* after a call nested in it had completed.                                 *)
C14_Witness ==
  /\ Idle /\ last.nested /\ last.hooks >= 2
  /\ last.outcome = CaptureFailure

(* No bridged call is executing.                                            *)
NoBridgedCall == \A k \in 1..Len(stack) : stack[k].fn # "capture"

(* C15 as stated: in every state in which no bridged call is executing,     *)
(* capturing is false and the slot is empty, also after a call whose        *)
(* operation raised an error.                                               *)
C15_Original ==
  NoBridgedCall => (capturing = FALSE /\ captured = Undefined)

(* C16 as stated: a breadcrumb the engine generates while no bridged call   *)
(* is in progress is handed to Client.captureBreadcrumb, exactly once; when *)
(* the Client passes it back to the adapter's captureBreadcrumb the         *)
(* engine's original primitive records it, exactly once, and the Client is  *)
(* not invoked again.                                                       *)
C16_Original ==
  /\ [][\A i \in Ids :
          (NoBridgedCall /\ hookCrumb[i] = 0 /\ hookCrumb'[i] = 1) =>
            clientCrumb'[i] = 1 /\ origCrumb'[i] = 0]_vars
  /\ [][\A i \in Ids :
          (clientCrumb[i] = 1 /\ hookCrumb'[i] = hookCrumb[i] + 1) =>
            clientCrumb'[i] = 1 /\ origCrumb'[i] = 1]_vars
  /\ [](\A i \in Ids : clientCrumb[i] <= 1 /\ origCrumb[i] <= 1)

(* The Event of the message path / of the exception path.                   *)
MessagePathEvent(event) == DOMAIN event = {"fingerprint", "message", "stacktrace"}
ExceptionPathEvent(event) ==
  "exception" \in DOMAIN event /\ "mechanism" \in DOMAIN event.exception

(* C17: the first shape an input matches, in the order wrapped error event, *)
(* legacy DOM error, standard error, plain data object, anything else,      *)
(* decides the path alone: the inner error, the standard error itself or an *)
(* Error made from the plain object's keys goes to stack computation; a     *)
(* legacy DOM error (also one that is a standard error too) and anything    *)
(* else go to the message path.  Every input yields an Event.               *)
C17_FirstMatchDecides ==
  norm.op = "eventFromException" =>
    LET x == norm.input
    IN /\ MessagePathEvent(norm.event) \/ ExceptionPathEvent(norm.event)
       /\ Wrapped(x) =>
            ExceptionPathEvent(norm.event) /\ norm.traced = x.error
       /\ LegacyDomShape(x) =>
            /\ MessagePathEvent(norm.event)
            /\ norm.traced.stack[1] = "at eventFromMessage (backend.ts:157)"
       /\ StandardError(x) =>
            ExceptionPathEvent(norm.event) /\ norm.traced = x
       /\ PlainData(x) =>
            /\ ExceptionPathEvent(norm.event)
            /\ norm.traced.stack[1] = "at eventFromException (backend.ts:116)"
       /\ ~(Wrapped(x) \/ LegacyDomShape(x) \/ StandardError(x) \/ PlainData(x)) =>
            /\ MessagePathEvent(norm.event)
            /\ norm.event.message = StringOf(x)

(* An input that is both a legacy DOM exception and a standard error took   *)
(* the message path.                                                        *)
C17_Witness ==
  /\ norm.op = "eventFromException"
  /\ isDOMException(norm.input) /\ isError(norm.input) /\ ~Wrapped(norm.input)
  /\ MessagePathEvent(norm.event)

(* C18 as stated: no event handed to the send hook is lost: the hook either *)
(* forwards it to Client.send or stores it in the slot, and an event in the *)
(* slot leaves it only by being returned by the bridged call in progress.   *)
C18_Original ==
  /\ [][\A i \in Ids :
          hookSend'[i] = hookSend[i] + 1 =>
            captured' = Event(i) \/ clientSend'[i] = clientSend[i] + 1]_vars
  /\ [][\A i \in Ids :
          (captured = Event(i) /\ captured' # Event(i)) =>
            ReturnStep /\ last'.outcome = Event(i)]_vars

(* C19 as stated: the artifact a bridged call returns has the declared      *)
(* type of the operation: an Event for captureException and captureMessage, *)
(* a Breadcrumb for captureBreadcrumb, also when both hooks fired during    *)
(* the operation.                                                           *)
C19_Original ==
  IsArtifact(last.outcome) =>
    /\ last.returns = "Event" => last.outcome.kind = "event"
    /\ last.returns = "Breadcrumb" => last.outcome.kind = "breadcrumb"

(* C20: a legacy DOM error goes to the message path with the message        *)
(* "<Name>: <message>" when it has a message and "<Name>" when it has none, *)
(* Name being its name or, when it has none, "DOMError" for a DOMError and  *)
(* "DOMException" for a DOMException.                                       *)
C20_DomMessage ==
  (norm.op = "eventFromException" /\ LegacyDomShape(norm.input)) =>
    LET x == norm.input
        m == norm.event.message
    IN /\ MessagePathEvent(norm.event)
       /\ norm.event.fingerprint = <<m>>
       /\ (x.name = "AbortError" /\ x.message = "bad") => m = "AbortError: bad"
       /\ (x.name = "AbortError" /\ x.message = "") => m = "AbortError"
       /\ (x.name = "" /\ isDOMError(x) /\ x.message = "bad") => m = "DOMError: bad"
       /\ (x.name = "" /\ isDOMError(x) /\ x.message = "") => m = "DOMError"
       /\ (x.name = "" /\ ~isDOMError(x) /\ x.message = "bad") => m = "DOMException: bad"
       /\ (x.name = "" /\ ~isDOMError(x) /\ x.message = "") => m = "DOMException"

(* A DOMException without a name, with a message, was normalized.           *)
C20_Witness ==
  /\ norm.op = "eventFromException" /\ LegacyDomShape(norm.input)
  /\ isDOMException(norm.input) /\ norm.input.name = ""
  /\ norm.event.message = "DOMException: bad"

Next ==
  \/ Install
  \/ CaptureException
  \/ CaptureMessage
  \/ CaptureBreadcrumb
  \/ ClientCapturesForwardedBreadcrumb
  \/ BreadcrumbOperation
  \/ EngineSend
  \/ EngineBreadcrumb
  \/ CaptureReturn
  \/ OperationThrows
  \/ Send
  \/ ClientSendsForwardedEvent
  \/ ClientReturns
  \/ SendCallback
  \/ BrowserSendEvent
  \/ BrowserEventFromException
  \/ BrowserEventFromMessage

Spec == Init /\ [][Next]_vars
=============================================================================
